---- MODULE Spec2Model ----
(***************************************************************************)
(* Model of kolibri/core/discovery/tasks.py: the network-location          *)
(* discovery tasks (add / remove / reset / perform update), the hook       *)
(* dispatch on connection status changes and the backoff re-enqueueing.    *)
(*                                                                         *)
(* The Location Store (Django models), the Prober                          *)
(* (update_network_location) and the Job Dispatcher (register_task's       *)
(* enqueue / enqueue_in) are collaborators whose code is outside of        *)
(* tasks.py; they are modelled from their documented contract.             *)
(***************************************************************************)
EXTENDS Naturals, Sequences, FiniteSets, TLC

\* ---------------------------------------------------------------- bounds
\* largest connection_faults value the model lets a dynamic row reach
MaxFaults == 11
\* largest connection_faults value the model lets a static row reach
MaxStaticFaults == 1
\* length of the sequence of storage results offered to one add event
StoreTries == 7

\* ------------------------------------------------------------- constants
CONNECTION_FAULT_LIMIT == 10

\* ConnectionStatus
Unknown == "Unknown"
Okay == "Okay"
ConnectionFailure == "ConnectionFailure"
Conflict == "Conflict"
ConnectionStatus == {Unknown, Okay, ConnectionFailure, Conflict}

\* ids of the StaticNetworkLocation rows and of the zeroconf instances
StaticIds == {"s1"}
InstanceIds == {"d1"}
LocationIds == StaticIds \cup InstanceIds
\* broadcast ids (hex UUID of a broadcast); NoBroadcast is the NULL
\* broadcast_id of a static location
BroadcastIds == {"e1", "e2"}
NoBroadcast == "null"
\* row that does not exist
Absent == [exists |-> FALSE]

\* what one call of the Prober can do
ProbeOutcomes == {Okay, ConnectionFailure, Conflict, "Raise"}
\* what one call of update_or_create can do
StoreResults == {"ok", "locked", "invalid", "fatal"}

VARIABLES
    store,      \* NetworkLocation table: id -> row, or Absent
    jobs,       \* pending jobs of perform_network_location_update
    last,       \* what the most recent task did (observation only)
    connected,  \* ids whose most recent notification was a connect
                \* (the observers' view, observation only)
    dispatch    \* the loop of one _dispatch_hooks call over the hooks

vars == <<store, jobs, last, connected, dispatch>>

\* the registered NetworkLocationDiscoveryHook objects
Hooks == {"h1", "h2", "h3"}

\* ------------------------------------------------------------------ rows
Row(dynamic, broadcast_id, status, faults, soud) ==
    [exists |-> TRUE,
     dynamic |-> dynamic,
     broadcast_id |-> broadcast_id,
     connection_status |-> status,
     connection_faults |-> faults,
     subset_of_users_device |-> soud]

Exists(s, id) == s[id].exists

\* a static location is never a subset-of-users device in this model
StaticRow == Row(FALSE, NoBroadcast, Unknown, 0, FALSE)

\* ----------------------------------------------------------- job ids
\* generate_job_id: md5 over the utf-8 bytes of the arguments, in order.
\* The digest is modelled as the tagged byte string it is computed from
\* (a collision-free hash).
RECURSIVE Concat(_)
Concat(args) ==
    IF args = <<>> THEN "" ELSE Head(args) \o Concat(Tail(args))

generate_job_id(args) == <<"md5", Concat(args)>>

\* ------------------------------------------------------ Job Dispatcher
\* enqueue / enqueue_in with a caller-supplied job_id: a job submitted
\* under the id of a pending job takes over its slot (replace-pending).
Enqueue(pending, job) ==
    {j \in pending : j.job_id # job.job_id} \cup {job}

RECURSIVE EnqueueAll(_, _)
EnqueueAll(pending, new) ==
    IF new = {} THEN pending
    ELSE LET j == CHOOSE x \in new : TRUE
         IN EnqueueAll(Enqueue(pending, j), new \ {j})

\* ------------------------------------------------------------- Prober
\* update_network_location: sets the status from the outcome; a failed
\* probe adds one fault, a successful probe clears the faults; when the
\* Prober raises, the status is left as it was and the fault is counted.
update_network_location(row, outcome) ==
    CASE outcome = Okay ->
            [row EXCEPT !.connection_status = Okay,
                        !.connection_faults = 0]
      [] outcome \in {ConnectionFailure, Conflict} ->
            [row EXCEPT !.connection_status = outcome,
                        !.connection_faults = @ + 1]
      [] OTHER ->
            [row EXCEPT !.connection_faults = @ + 1]

\* the model stops counting the faults of a row at its bound
CanProbe(row, outcome) ==
    \/ outcome = Okay
    \/ row.connection_faults <
          (IF row.dynamic THEN MaxFaults ELSE MaxStaticFaults)

\* -------------------------------------------------------------- hooks
\* _dispatch_hooks: one notification for the location
_dispatch_hooks(id, is_connected) ==
    <<[location |-> id, connected |-> is_connected]>>

\* variant: dispatches on every change of status
StatusChangeObservable_AnyChange(prior_status, new_status) ==
    new_status # prior_status

\* variant: hooks only when the row becomes Okay
StatusChangeObservable_ConnectOnly(prior_status, new_status) ==
    /\ new_status # prior_status
    /\ new_status = Okay

\* the condition of the `if` in _update_connection_status
StatusChangeObservable(prior_status, new_status) ==
    /\ new_status # prior_status
    /\ Okay \in {prior_status, new_status}

\* _update_connection_status: probe, then dispatch hooks if the status
\* moved to or from Okay; yields the row, the new status and the hooks
_update_connection_status(id, row, outcome) ==
    LET prior_status == row.connection_status
        updated == update_network_location(row, outcome)
        new_status == updated.connection_status
    IN [row |-> updated,
        new_status |-> new_status,
        hooks |-> IF StatusChangeObservable(prior_status, new_status)
                  THEN _dispatch_hooks(id, new_status = Okay)
                  ELSE <<>>]

\* ------------------------------------------------------------ backoff
RECURSIVE Pow2(_)
Pow2(n) == IF n = 0 THEN 1 ELSE 2 * Pow2(n - 1)

\* variant: linear instead of exponential growth
BackoffMinutes_Linear(connection_faults) == 2 * connection_faults

\* minutes of delay of the next attempt
BackoffMinutes(connection_faults) == Pow2(connection_faults)

\* _enqueue_network_location_update_with_backoff: the job it submits
BackoffJob(id, row) ==
    [job_id |-> generate_job_id(<<"connect", id>>),
     args |-> id,
     delayed |-> TRUE,
     minutes |-> BackoffMinutes(row.connection_faults)]

\* variant: the reset hashes its own tag into the job id
ResetJob_OwnTag(id) ==
    [job_id |-> generate_job_id(<<"reset", id>>),
     args |-> id,
     delayed |-> FALSE,
     minutes |-> 0]

\* the job reset_connection_states submits for a static location
ResetJob(id) ==
    [job_id |-> generate_job_id(<<"connect", id>>),
     args |-> id,
     delayed |-> FALSE,
     minutes |-> 0]

\* ----------------------------------------------------- observation
NoOp ==
    [op |-> "none", id |-> "", broadcast_id |-> NoBroadcast,
     found |-> FALSE, skipped |-> FALSE, probed |-> FALSE,
     prior_status |-> Unknown, outcome |-> "",
     hooks |-> <<>>, scheduled |-> {}, collapsed |-> FALSE,
     deleted |-> {}, attempts |-> 0, raised |-> FALSE,
     invalid |-> 0, seen |-> <<>>]

\* what a hook called for `id` finds: is the row in the store `s`, and
\* with which status
Seen(s, id) ==
    <<[location |-> id,
       in_store |-> Exists(s, id),
       status |-> IF Exists(s, id) THEN s[id].connection_status
                  ELSE "DoesNotExist"]>>

\* what the hooks of `notes` find in the store `s`, in order
RECURSIVE SeenAll(_, _)
SeenAll(s, notes) ==
    IF notes = <<>> THEN <<>>
    ELSE Seen(s, Head(notes).location) \o SeenAll(s, Tail(notes))

\* some job of `new` was submitted under the id of a pending job
Collapsed(pending, new) ==
    \E j \in new : \E p \in pending : p.job_id = j.job_id

\* the observers' view after the notifications `notes`, in order
RECURSIVE Observe(_, _)
Observe(view, notes) ==
    IF notes = <<>> THEN view
    ELSE Observe(IF Head(notes).connected
                 THEN view \cup {Head(notes).location}
                 ELSE view \ {Head(notes).location},
                 Tail(notes))

\* every task step: the observers have seen the hooks of the step
Observed ==
    /\ connected' = Observe(connected, last'.hooks)
    /\ UNCHANGED dispatch

\* no _dispatch_hooks call is being looked at
NoDispatch ==
    [pc |-> "idle", registered_hooks |-> <<>>, location |-> "",
     is_connected |-> FALSE, i |-> 1, calls |-> <<>>, logged |-> <<>>,
     propagated |-> FALSE]

\* ---------------------------------------------------------------- Init
Init ==
    /\ store = [id \in LocationIds |->
                  IF id \in StaticIds THEN StaticRow ELSE Absent]
    /\ jobs = {}
    /\ last = NoOp
    /\ connected = {}
    /\ dispatch = NoDispatch

\* ------------------------------------------- perform_network_location_update
\* variant: nothing ends the chain but a row that is Okay
EndOfUpdates_Never(row, prior_status, new_status) == FALSE

\* variant: only the fault limit ends the chain
EndOfUpdates_FaultLimitOnly(row, prior_status, new_status) ==
    row.connection_faults >= CONNECTION_FAULT_LIMIT

\* the two conditions that end the chain of attempts
EndOfUpdates(row, prior_status, new_status) ==
    \/ row.connection_faults >= CONNECTION_FAULT_LIMIT
    \/ (new_status = Conflict /\ prior_status = Conflict)

\* the jobs perform_network_location_update enqueues after the probe
PerformReschedule(id, row, prior_status, new_status) ==
    IF EndOfUpdates(row, prior_status, new_status) THEN {}
    ELSE IF new_status # Okay THEN {BackoffJob(id, row)}
    ELSE {}

\* NetworkLocation.objects.get(id=...) finds a row
LocationFound(s, id) == Exists(s, id)

\* variant: a missing row is given another attempt instead of a return
MissingReschedule_Retry(id) ==
    {BackoffJob(id, Row(TRUE, NoBroadcast, Unknown, 0, FALSE))}

\* the jobs enqueued on NetworkLocation.DoesNotExist: none, it returns
MissingReschedule(id) == {}

\* the subset-of-users short circuit
SoudSkip(device_is_soud, row) ==
    device_is_soud /\ row.subset_of_users_device

PerformUpdate(job, device_is_soud) ==
    LET id == job.args
        pending == jobs \ {job}
    IN IF ~LocationFound(store, id)
       THEN /\ jobs' = EnqueueAll(pending, MissingReschedule(id))
            /\ store' = store
            /\ last' = [NoOp EXCEPT !.op = "perform", !.id = id,
                                    !.scheduled = MissingReschedule(id)]
       ELSE IF SoudSkip(device_is_soud, store[id])
       THEN /\ jobs' = pending
            /\ store' = store
            /\ last' = [NoOp EXCEPT !.op = "perform", !.id = id,
                                    !.found = TRUE, !.skipped = TRUE]
       ELSE \E outcome \in ProbeOutcomes :
            \E res \in {_update_connection_status(id, store[id], outcome)} :
            \E new \in {PerformReschedule(
                            id, res.row, store[id].connection_status,
                            res.new_status)} :
            LET row == store[id]
                prior_status == row.connection_status
            IN /\ CanProbe(row, outcome)
               /\ store' = [store EXCEPT ![id] = res.row]
               /\ jobs' = EnqueueAll(pending, new)
               /\ last' = [NoOp EXCEPT
                             !.op = "perform", !.id = id, !.found = TRUE,
                             !.probed = TRUE,
                             !.prior_status = prior_status,
                             !.outcome = outcome,
                             !.hooks = res.hooks,
                             !.scheduled = new,
                             !.collapsed = Collapsed(pending, new),
                             !.seen = SeenAll(
                                 [store EXCEPT ![id] = res.row], res.hooks)]

\* ------------------------------------------------- _store_dynamic_instance
\* variant: the row is written anew, status and faults included
StoredRow_Fresh(s, broadcast_id, instance) ==
    Row(TRUE, broadcast_id, Unknown, 0, instance.subset_of_users_device)

\* update_or_create(defaults, pk=instance.zeroconf_id): an existing row
\* keeps its status and faults and takes the new broadcast_id and device
\* info; a new row starts Unknown with no faults
StoredRow(s, broadcast_id, instance) ==
    IF Exists(s, instance.id)
    THEN [s[instance.id] EXCEPT
            !.dynamic = TRUE,
            !.broadcast_id = broadcast_id,
            !.subset_of_users_device = instance.subset_of_users_device]
    ELSE Row(TRUE, broadcast_id, Unknown, 0,
             instance.subset_of_users_device)

\* one call: the row on success, None on ValidationError or on a locked
\* database, the exception re-raised on any other OperationalError
_store_dynamic_instance(s, broadcast_id, instance, result) ==
    CASE result = "ok" ->
            [network_location |-> StoredRow(s, broadcast_id, instance),
             none |-> FALSE, raised |-> FALSE]
      [] result \in {"invalid", "locked"} ->
            [network_location |-> Absent, none |-> TRUE, raised |-> FALSE]
      [] OTHER ->
            [network_location |-> Absent, none |-> TRUE, raised |-> TRUE]

\* --------------------------------------------- add_dynamic_network_location
\* the loop guard, once network_location is known to be None
MoreAttempts(attempts) == attempts <= 5

\* while network_location is None and attempts <= 5: store, count, sleep
RECURSIVE StoreLoop(_, _, _, _, _)
StoreLoop(s, broadcast_id, instance, results, attempts) ==
    IF ~MoreAttempts(attempts)
    THEN [network_location |-> Absent, none |-> TRUE, raised |-> FALSE,
          attempts |-> attempts]
    ELSE LET r == _store_dynamic_instance(s, broadcast_id, instance,
                                          results[attempts + 1])
         IN IF r.raised \/ ~r.none
            THEN [network_location |-> r.network_location,
                  none |-> r.none, raised |-> r.raised,
                  attempts |-> attempts + 1]
            ELSE StoreLoop(s, broadcast_id, instance, results,
                           attempts + 1)

\* how many of the store attempts made ended in a ValidationError
ValidationErrors(results, attempts) ==
    Cardinality({i \in 1..attempts : results[i] = "invalid"})

\* variant: a backoff job whatever the new status
AddReschedule_Always(id, row, new_status) == {BackoffJob(id, row)}

\* the jobs add_dynamic_network_location enqueues after the probe
AddReschedule(id, row, new_status) ==
    IF new_status # Okay THEN {BackoffJob(id, row)} ELSE {}

AddDynamicLocation(broadcast_id, instance, results) ==
    \E st \in {StoreLoop(store, broadcast_id, instance, results, 0)} :
    LET id == instance.id
    IN IF st.none
       THEN /\ store' = store
            /\ jobs' = jobs
            /\ last' = [NoOp EXCEPT !.op = "add", !.id = id,
                                    !.attempts = st.attempts,
                                    !.raised = st.raised,
                                    !.invalid = ValidationErrors(
                                                  results, st.attempts)]
       ELSE \E outcome \in ProbeOutcomes :
            \E res \in {_update_connection_status(
                            id, st.network_location, outcome)} :
            \E new \in {AddReschedule(id, res.row, res.new_status)} :
            LET row == st.network_location
            IN /\ CanProbe(row, outcome)
               /\ store' = [store EXCEPT ![id] = res.row]
               /\ jobs' = EnqueueAll(jobs, new)
               /\ last' = [NoOp EXCEPT
                             !.op = "add", !.id = id,
                             !.found = TRUE, !.probed = TRUE,
                             !.prior_status = row.connection_status,
                             !.outcome = outcome,
                             !.hooks = res.hooks,
                             !.scheduled = new,
                             !.collapsed = Collapsed(jobs, new),
                             !.attempts = st.attempts,
                             !.invalid = ValidationErrors(
                                           results, st.attempts),
                             !.seen = SeenAll(
                                 [store EXCEPT ![id] = res.row], res.hooks)]

\* ------------------------------------------ remove_dynamic_network_location
\* variant: the lookup is by pk only
DynamicFound_AnyBroadcast(s, broadcast_id, id) ==
    /\ Exists(s, id)
    /\ s[id].dynamic

\* DynamicNetworkLocation.objects.get(pk=..., broadcast_id=...) finds a row
DynamicFound(s, broadcast_id, id) ==
    /\ Exists(s, id)
    /\ s[id].dynamic
    /\ s[id].broadcast_id = broadcast_id

\* variant: the row is deleted first, the hooks are called after
RemoveStoreAtDispatch_Deleted(s, id) == [s EXCEPT ![id] = Absent]

\* the store when remove_dynamic_network_location calls the hooks: the
\* row is deleted only after _dispatch_hooks has returned
RemoveStoreAtDispatch(s, id) == s

RemoveDynamicLocation(broadcast_id, instance) ==
    LET id == instance.id
    IN IF ~DynamicFound(store, broadcast_id, id)
       THEN /\ store' = store
            /\ jobs' = jobs
            /\ last' = [NoOp EXCEPT !.op = "remove", !.id = id]
       ELSE /\ store' = [store EXCEPT ![id] = Absent]
            /\ jobs' = jobs
            /\ last' = [NoOp EXCEPT
                          !.op = "remove", !.id = id, !.found = TRUE,
                          !.broadcast_id = broadcast_id,
                          !.prior_status = store[id].connection_status,
                          !.hooks = _dispatch_hooks(id, FALSE),
                          !.deleted = {id},
                          !.seen = SeenAll(RemoveStoreAtDispatch(store, id),
                                           _dispatch_hooks(id, FALSE))]

\* -------------------------------------------------- reset_connection_states
\* NetworkLocation.objects.exclude(broadcast_id=broadcast_id)
OutsideBroadcast(s, broadcast_id) ==
    {id \in LocationIds :
        Exists(s, id) /\ s[id].broadcast_id # broadcast_id}

\* variant: only the dynamic rows are told of the disconnect
DisconnectedByReset_DynamicOnly(s, broadcast_id) ==
    {id \in OutsideBroadcast(s, broadcast_id) :
        s[id].connection_status = Okay /\ s[id].dynamic}

\* ... .filter(connection_status=ConnectionStatus.Okay)
DisconnectedByReset(s, broadcast_id) ==
    {id \in OutsideBroadcast(s, broadcast_id) :
        s[id].connection_status = Okay}

\* variant: the exclude() is missing, every dynamic row is stale
StaleDynamic_All(s, broadcast_id) ==
    {id \in LocationIds : Exists(s, id) /\ s[id].dynamic}

\* DynamicNetworkLocation.objects.exclude(broadcast_id=broadcast_id)
StaleDynamic(s, broadcast_id) ==
    {id \in OutsideBroadcast(s, broadcast_id) : s[id].dynamic}

\* the store after ... .delete()
DeleteStale(s, broadcast_id) ==
    [id \in LocationIds |->
        IF id \in StaleDynamic(s, broadcast_id) THEN Absent ELSE s[id]]

\* variant: only the dynamic rows outside the broadcast are reset
ResetStatus_DynamicOnly(s, broadcast_id) ==
    [id \in LocationIds |->
        IF id \in OutsideBroadcast(s, broadcast_id) /\ s[id].dynamic
        THEN [s[id] EXCEPT !.connection_status = Unknown]
        ELSE s[id]]

\* the store after ... .update(connection_status=ConnectionStatus.Unknown)
ResetStatus(s, broadcast_id) ==
    [id \in LocationIds |->
        IF id \in OutsideBroadcast(s, broadcast_id)
        THEN [s[id] EXCEPT !.connection_status = Unknown]
        ELSE s[id]]

\* variant: the ids of all locations, dynamic ones included
StaticLocationIds_All(s) ==
    {id \in LocationIds : Exists(s, id)}

\* StaticNetworkLocation.objects.all().values_list("id", flat=True)
StaticLocationIds(s) ==
    {id \in LocationIds : Exists(s, id) /\ ~s[id].dynamic}

\* the hooks of a set of locations, one after the other
RECURSIVE DisconnectAll(_)
DisconnectAll(ids) ==
    IF ids = {} THEN <<>>
    ELSE LET id == CHOOSE x \in ids : TRUE
         IN _dispatch_hooks(id, FALSE) \o DisconnectAll(ids \ {id})

\* the store when reset_connection_states calls the hooks: the delete()
\* and the update() come after the loop over the hooks
ResetStoreAtDispatch(s, broadcast_id) == s

ResetConnectionStates(broadcast_id) ==
    \E after \in {ResetStatus(DeleteStale(store, broadcast_id),
                              broadcast_id)} :
    \E new \in {{ResetJob(id) : id \in StaticLocationIds(after)}} :
       /\ store' = after
       /\ jobs' = EnqueueAll(jobs, new)
       /\ last' = [NoOp EXCEPT
                     !.op = "reset", !.broadcast_id = broadcast_id,
                     !.hooks = DisconnectAll(
                                 DisconnectedByReset(store, broadcast_id)),
                     !.scheduled = new,
                     !.collapsed = Collapsed(jobs, new),
                     !.deleted = StaleDynamic(store, broadcast_id),
                     !.seen = SeenAll(
                                ResetStoreAtDispatch(store, broadcast_id),
                                DisconnectAll(DisconnectedByReset(
                                    store, broadcast_id)))]

\* ------------------------------------------------------------- inputs
\* a zeroconf instance, as far as the tasks read it; the instances of the
\* model advertise themselves as subset-of-users devices
Instances ==
    [id : InstanceIds, subset_of_users_device : {TRUE}]

\* results of the successive update_or_create calls of one add event:
\* k failures of one kind, then always the same result
ResultSeq(k, fail, then) ==
    [i \in 1..StoreTries |-> IF i <= k THEN fail ELSE then]

\* immediate success, immediate fatal error, success after one locked
\* database, and nothing but locked databases or validation errors
StoreResultSeqs ==
    {ResultSeq(0, "locked", then) : then \in {"ok", "fatal"}} \cup
    {ResultSeq(1, "locked", "ok")} \cup
    {ResultSeq(StoreTries, fail, "ok") : fail \in {"locked", "invalid"}}

Next ==
    \/ \E job \in jobs, device_is_soud \in BOOLEAN :
            PerformUpdate(job, device_is_soud) /\ Observed
    \/ \E broadcast_id \in BroadcastIds, instance \in Instances,
          results \in StoreResultSeqs :
            AddDynamicLocation(broadcast_id, instance, results) /\ Observed
    \/ \E broadcast_id \in BroadcastIds, instance \in Instances :
            RemoveDynamicLocation(broadcast_id, instance) /\ Observed
    \/ \E broadcast_id \in BroadcastIds :
            ResetConnectionStates(broadcast_id) /\ Observed

Spec == Init /\ [][Next]_vars

\* ================================================================ claims
\* the pending jobs of a location
PendingFor(id) == {j \in jobs : j.args = id}

\* ------------------------------------------- one _dispatch_hooks call
\* the orders in which some of the hooks can be registered
Registries ==
    UNION {{r \in [1..n -> Hooks] :
               \A a, b \in 1..n : a # b => r[a] # r[b]} :
           n \in 0..Cardinality(Hooks)}

\* _dispatch_hooks(network_location, is_connected) has been entered
InitDispatch ==
    /\ store = [id \in LocationIds |->
                  IF id \in StaticIds THEN StaticRow ELSE Absent]
    /\ jobs = {}
    /\ last = NoOp
    /\ connected = {}
    /\ \E registered_hooks \in Registries, location \in LocationIds,
          is_connected \in BOOLEAN :
          dispatch = [NoDispatch EXCEPT !.pc = "loop",
                         !.registered_hooks = registered_hooks,
                         !.location = location,
                         !.is_connected = is_connected]

\* the method the loop body calls on a hook
HookCall(d) ==
    [hook |-> d.registered_hooks[d.i],
     method |-> IF d.is_connected THEN "on_connect" ELSE "on_disconnect",
     location |-> d.location]

\* variant: the loop body without its try/except
HookCalled_NoExcept(d, raises) ==
    IF raises
    THEN [d EXCEPT !.calls = Append(@, HookCall(d)),
                   !.propagated = TRUE, !.pc = "done"]
    ELSE [d EXCEPT !.calls = Append(@, HookCall(d)), !.i = @ + 1]

\* one pass of the loop body: the call, and `except Exception` logging
\* the hook's name when the call raises
HookCalled(d, raises) ==
    [d EXCEPT !.calls = Append(@, HookCall(d)),
              !.logged = IF raises THEN Append(@, HookCall(d)) ELSE @,
              !.i = @ + 1]

CallHook(raises) ==
    /\ dispatch.pc = "loop"
    /\ dispatch.i <= Len(dispatch.registered_hooks)
    /\ dispatch' = HookCalled(dispatch, raises)
    /\ UNCHANGED <<store, jobs, last, connected>>

\* the for loop is exhausted: _dispatch_hooks returns to its caller
DispatchReturn ==
    /\ dispatch.pc = "loop"
    /\ dispatch.i > Len(dispatch.registered_hooks)
    /\ dispatch' = [dispatch EXCEPT !.pc = "done"]
    /\ UNCHANGED <<store, jobs, last, connected>>

NextDispatch ==
    \/ \E raises \in BOOLEAN : CallHook(raises)
    \/ DispatchReturn

SpecDispatch == InitDispatch /\ [][NextDispatch]_vars

\* --------------------------------- retry chains, no add and no reset
\* the row and the pending job a failed add leaves behind, and the row
\* of a later successful add with that job still pending
ChainStarts ==
    {[row |-> Row(TRUE, "e1", status, 1, TRUE), connected |-> {}] :
        status \in {Unknown, ConnectionFailure, Conflict}} \cup
    {[row |-> Row(TRUE, "e1", Okay, 0, TRUE), connected |-> {"d1"}]}

InitChain ==
    \E start \in ChainStarts :
       /\ store = [id \in LocationIds |->
                     IF id \in StaticIds THEN StaticRow ELSE start.row]
       /\ jobs = {BackoffJob("d1", Row(TRUE, "e1", ConnectionFailure, 1, TRUE))}
       /\ last = NoOp
       /\ connected = start.connected
       /\ dispatch = NoDispatch

\* a worker runs the pending job of a location
RunJob(id) ==
    \E job \in PendingFor(id), device_is_soud \in BOOLEAN :
        PerformUpdate(job, device_is_soud) /\ Observed

NextChain ==
    \/ \E id \in InstanceIds : RunJob(id)
    \/ \E broadcast_id \in BroadcastIds, instance \in Instances :
            RemoveDynamicLocation(broadcast_id, instance) /\ Observed

\* the worker pool runs every pending job sooner or later
SpecChain ==
    /\ InitChain
    /\ [][NextChain]_vars
    /\ \A id \in InstanceIds : WF_vars(RunJob(id))

StatusOf(id) == store[id].connection_status
FaultsOf(id) == store[id].connection_faults
Silent == {Unknown, ConnectionFailure, Conflict}

\* C1: after a probe, hooks were dispatched iff the status changed and the
\* old or the new status is Okay; the one notification is a connect iff
\* the new status is Okay; changes among Unknown, ConnectionFailure and
\* Conflict dispatch nothing.
C1_HooksIffReachableEdge ==
    last.probed =>
        LET prior == last.prior_status
            new == StatusOf(last.id)
        IN /\ (last.hooks # <<>>) <=>
                 (new # prior /\ (prior = Okay \/ new = Okay))
           /\ last.hooks # <<>> =>
                 last.hooks = <<[location |-> last.id,
                                 connected |-> (new = Okay)]>>
           /\ (prior \in Silent /\ new \in Silent) => last.hooks = <<>>

C1_Witness ==
    /\ last.probed
    /\ last.prior_status = Okay
    /\ StatusOf(last.id) = Conflict
    /\ last.hooks = <<[location |-> last.id, connected |-> FALSE]>>

\* C2: no task submits a delayed retry for a location whose fault count is
\* at or above the limit when the job is submitted.
C2_NoRetryAtFaultLimit ==
    \A j \in last.scheduled :
        j.delayed => FaultsOf(j.args) < CONNECTION_FAULT_LIMIT

\* C3: every pending job carries the id computed from "connect" and its
\* location id, and no location has two pending probe jobs.
C3_OnePendingJobPerLocation ==
    /\ \A j \in jobs : j.job_id = <<"md5", "connect" \o j.args>>
    /\ \A id \in LocationIds : Cardinality(PendingFor(id)) <= 1

C3_Witness ==
    /\ last.op = "reset"
    /\ last.collapsed
    /\ \A id \in LocationIds : Cardinality(PendingFor(id)) = 1

\* C4: a retry submitted after a failed probe is delayed by 2^f minutes,
\* f being the fault count after the probe, one more than before it; the
\* delay grows strictly with f.
PriorFaults(id) ==
    IF Exists(store, id) THEN FaultsOf(id) ELSE 0

C4_DelayIsTwoToTheFaults ==
    [][\A j \in last'.scheduled :
          j.delayed =>
             /\ store'[j.args].connection_faults = PriorFaults(j.args) + 1
             /\ j.minutes = 2 ^ store'[j.args].connection_faults
             /\ \A f \in 0..store'[j.args].connection_faults :
                   f < store'[j.args].connection_faults =>
                      BackoffMinutes(f) < j.minutes]_vars

C4_Witness ==
    /\ last.probed
    /\ last.outcome = ConnectionFailure
    /\ FaultsOf(last.id) = 4
    /\ \E j \in last.scheduled : j.delayed /\ j.minutes = 16

\* C5: a reset for broadcast E deletes every dynamic row of another
\* broadcast and keeps every dynamic row of broadcast E.
C5_ResetPurgesOtherBroadcasts ==
    [][last'.op = "reset" =>
          \A id \in LocationIds :
             (Exists(store, id) /\ store[id].dynamic) =>
                IF store[id].broadcast_id = last'.broadcast_id
                THEN Exists(store', id) /\ store'[id].dynamic
                ELSE ~Exists(store', id)]_vars

C5_Witness ==
    /\ last.op = "reset"
    /\ last.deleted = {"d1"}
    /\ ~Exists(store, "d1")

\* C6: after a reset for broadcast E every remaining row outside broadcast
\* E (every static row) is Unknown, and the rows of broadcast E are as
\* they were.
C6_ResetStatusUnknown ==
    [][last'.op = "reset" =>
          \A id \in LocationIds :
             Exists(store', id) =>
                IF store'[id].broadcast_id = last'.broadcast_id
                THEN store'[id] = store[id]
                ELSE /\ store'[id].connection_status = Unknown
                     /\ ~store'[id].dynamic]_vars

C6_Witness ==
    /\ last.op = "reset"
    /\ last.hooks = <<[location |-> "s1", connected |-> FALSE]>>
    /\ StatusOf("s1") = Unknown
    /\ Exists(store, "d1")
    /\ store["d1"].broadcast_id = last.broadcast_id
    /\ StatusOf("d1") = Okay

\* C7: after a reset every static row has exactly one pending job, an
\* immediate one, and the reset submitted no job for a dynamic row.
C7_ResetOneImmediateJobPerStatic ==
    last.op = "reset" =>
        /\ \A id \in LocationIds :
              (Exists(store, id) /\ ~store[id].dynamic) =>
                 /\ Cardinality(PendingFor(id)) = 1
                 /\ \A j \in PendingFor(id) : ~j.delayed
        /\ \A j \in last.scheduled : ~store[j.args].dynamic

C7_Witness ==
    /\ last.op = "reset"
    /\ last.collapsed
    /\ Exists(store, "d1")
    /\ Cardinality(PendingFor("s1")) = 1

\* C8: a job for an id that is not in the store ends without error, probe,
\* hook or new job, and the store is as before.
C8_MissingLocationNoAction ==
    [][(last'.op = "perform" /\ ~last'.found) =>
          /\ store' = store
          /\ jobs' \subseteq jobs
          /\ \A j \in jobs' : j.args # last'.id
          /\ ~last'.probed
          /\ ~last'.raised
          /\ last'.hooks = <<>>
          /\ last'.scheduled = {}]_vars

C8_Witness ==
    /\ last.op = "perform"
    /\ ~last.found
    /\ last.id = "d1"
    /\ ~Exists(store, "d1")

\* C9: a job that finds the status Conflict before and after its probe
\* submits no retry; a first Conflict below the fault limit does.
C9_StableConflictEndsChain ==
    (last.op = "perform" /\ last.probed /\ StatusOf(last.id) = Conflict) =>
        IF last.prior_status = Conflict
        THEN last.scheduled = {}
        ELSE FaultsOf(last.id) < CONNECTION_FAULT_LIMIT =>
                \E j \in last.scheduled : j.delayed /\ j.args = last.id

C9_Witness ==
    /\ last.op = "perform"
    /\ last.probed
    /\ last.prior_status = Conflict
    /\ last.outcome = Conflict
    /\ FaultsOf(last.id) < CONNECTION_FAULT_LIMIT
    /\ last.scheduled = {}

\* C10: one add event calls the store operation at most 5 times.
C10_AtMostFiveStoreAttempts ==
    last.op = "add" => last.attempts <= 5

\* C11: a ValidationError on a store attempt ends the attempts of that add
\* event: one attempt, nothing stored, probed or scheduled.
C11_ValidationErrorAborts ==
    (last.op = "add" /\ last.invalid > 0) =>
        /\ last.attempts = 1
        /\ ~last.found
        /\ ~last.probed
        /\ last.scheduled = {}

\* C12: an add event that stored the row probes it once; a status other
\* than Okay after the probe gives exactly the backoff job of
\* ("connect", id), which is then the one pending job of the row; Okay
\* gives no job.
C12_AddProbesOnceThenBackoff ==
    (last.op = "add" /\ last.found) =>
        /\ last.probed
        /\ Exists(store, last.id)
        /\ IF StatusOf(last.id) = Okay
           THEN last.scheduled = {}
           ELSE /\ Cardinality(last.scheduled) = 1
                /\ \A j \in last.scheduled :
                      /\ j.job_id = <<"md5", "connect" \o last.id>>
                      /\ j.args = last.id
                      /\ j.delayed
                /\ PendingFor(last.id) = last.scheduled

C12_Witness ==
    /\ last.op = "add"
    /\ last.found
    /\ last.attempts = 1
    /\ last.outcome = ConnectionFailure
    /\ Cardinality(last.scheduled) = 1

\* C13: a remove event deletes a row only if the row is dynamic, has the
\* id of the instance and the broadcast_id of the event; otherwise the
\* store and the jobs are as before and no hook is called.
C13_RemoveOnlyMatching ==
    [][last'.op = "remove" =>
          IF last'.found
          THEN /\ Exists(store, last'.id)
               /\ store[last'.id].dynamic
               /\ store[last'.id].broadcast_id = last'.broadcast_id
          ELSE /\ store' = store
               /\ jobs' = jobs
               /\ last'.hooks = <<>>
               /\ last'.deleted = {}
               /\ ~last'.raised]_vars

C13_Witness ==
    /\ last.op = "remove"
    /\ ~last.found
    /\ Exists(store, last.id)
    /\ store[last.id].dynamic

\* C15: a remove event that finds its row calls the hooks with a
\* disconnect whatever the stored status, while the row is still in the
\* store, and the row is gone when the event ends.
C15_RemoveDisconnectsThenDeletes ==
    [][(last'.op = "remove" /\ last'.found) =>
          /\ last'.hooks =
                <<[location |-> last'.id, connected |-> FALSE]>>
          /\ last'.seen =
                <<[location |-> last'.id, in_store |-> TRUE,
                   status |-> store[last'.id].connection_status]>>
          /\ ~Exists(store', last'.id)]_vars

C15_Witness ==
    /\ last.op = "remove"
    /\ last.found
    /\ last.prior_status = Conflict
    /\ last.hooks = <<[location |-> last.id, connected |-> FALSE]>>
    /\ ~Exists(store, last.id)

\* C16: a reset for broadcast E calls the hooks with one disconnect for
\* each row, static or dynamic, that is Okay and outside broadcast E when
\* the reset starts, and for no other; each hook finds the row still in
\* the store and still Okay.
ResetTargets(broadcast_id) ==
    {id \in LocationIds :
        /\ Exists(store, id)
        /\ store[id].connection_status = Okay
        /\ store[id].broadcast_id # broadcast_id}

C16_ResetDisconnectsReachable ==
    [][last'.op = "reset" =>
          LET targets == ResetTargets(last'.broadcast_id)
              n == Len(last'.hooks)
          IN /\ n = Cardinality(targets)
             /\ {last'.hooks[i].location : i \in 1..n} = targets
             /\ \A i \in 1..n : ~last'.hooks[i].connected
             /\ Len(last'.seen) = n
             /\ \A i \in 1..n :
                   /\ last'.seen[i].location = last'.hooks[i].location
                   /\ last'.seen[i].in_store
                   /\ last'.seen[i].status = Okay]_vars

C16_Witness ==
    /\ last.op = "reset"
    /\ Len(last.hooks) = 2
    /\ last.deleted = {"d1"}
    /\ StatusOf("s1") = Unknown

\* C17: when the Prober raises, the task does not fail and goes on as
\* after a failed probe: unless the fault limit is reached or the status
\* is Conflict before and after, a retry is submitted, whatever the prior
\* status.
C17_RaiseSchedulesRetry ==
    (last.probed /\ last.outcome = "Raise") =>
        /\ ~last.raised
        /\ \/ FaultsOf(last.id) >= CONNECTION_FAULT_LIMIT
           \/ (last.prior_status = Conflict /\ StatusOf(last.id) = Conflict)
           \/ last.scheduled # {}

\* C19: the fault count of a row that stays in the store changes only by
\* the probe of that row: one more after a probe that did not succeed,
\* zero after a successful probe that leaves the row Okay; a reset, the
\* re-storing of the row by an add event and the hooks leave it alone, so
\* it never goes down while the row is not Okay.
C19_FaultsOnlyMovedByProbe ==
    [][\A id \in LocationIds :
          (Exists(store, id) /\ Exists(store', id)) =>
             LET f == store[id].connection_faults
                 g == store'[id].connection_faults
                 probed == last'.probed /\ last'.id = id
             IN /\ \/ g = f
                   \/ probed /\ last'.outcome # Okay /\ g = f + 1
                   \/ /\ probed /\ last'.outcome = Okay /\ g = 0
                      /\ store'[id].connection_status = Okay
                /\ store'[id].connection_status # Okay => g >= f
                /\ ~probed => g = f]_vars

C19_Witness ==
    /\ last.op = "add"
    /\ last.found
    /\ last.prior_status = ConnectionFailure
    /\ last.outcome = Conflict
    /\ FaultsOf(last.id) = 3

\* C20: with the tasks run one at a time, a row is Okay only if the most
\* recent notification for its id was a connect, and no connect is
\* dispatched for an id whose most recent notification was a connect.
C20_ObserversViewConsistent ==
    /\ [](\A id \in LocationIds :
             (Exists(store, id) /\ StatusOf(id) = Okay) => id \in connected)
    /\ [][\A i \in 1..Len(last'.hooks) :
             last'.hooks[i].connected =>
                last'.hooks[i].location \notin connected]_vars

C20_Witness ==
    /\ connected = {"s1", "d1"}
    /\ StatusOf("s1") = Okay
    /\ Exists(store, "d1")
    /\ StatusOf("d1") = Okay
    /\ last.hooks = <<[location |-> "d1", connected |-> TRUE]>>
    /\ last.prior_status = ConnectionFailure

\* C14: one dispatch calls every registered hook once, in registration
\* order, on_connect when is_connected and on_disconnect otherwise; a hook
\* that raises does not stop the later hooks, and nothing propagates to
\* the caller.
C14_EveryHookCalledInOrder ==
    dispatch.pc # "idle" =>
        /\ ~dispatch.propagated
        /\ Len(dispatch.calls) = dispatch.i - 1
        /\ \A k \in 1..Len(dispatch.calls) :
              dispatch.calls[k] =
                 [hook |-> dispatch.registered_hooks[k],
                  method |-> IF dispatch.is_connected
                             THEN "on_connect" ELSE "on_disconnect",
                  location |-> dispatch.location]
        /\ dispatch.pc = "done" =>
              Len(dispatch.calls) = Len(dispatch.registered_hooks)

C14_Witness ==
    /\ dispatch.pc = "done"
    /\ Len(dispatch.registered_hooks) = 3
    /\ Len(dispatch.calls) = 3
    /\ Len(dispatch.logged) = 1
    /\ dispatch.logged[1].hook = dispatch.registered_hooks[1]
    /\ ~dispatch.is_connected

\* C18 as stated: a chain ends only on an Okay status, on the fault
\* limit, on a repeated Conflict or on a missing row.
C18_ChainEndsAsEnumerated ==
    [][(last'.op = "perform" /\ \A j \in jobs' : j.args # last'.id) =>
          \/ ~last'.found
          \/ store'[last'.id].connection_status = Okay
          \/ store'[last'.id].connection_faults >= CONNECTION_FAULT_LIMIT
          \/ /\ last'.prior_status = Conflict
             /\ store'[last'.id].connection_status = Conflict]_vars

\* C18, amended: with no add and no reset and every pending job run
\* sooner or later, a location ends up with no pending job for good; a
\* retry is pending only below the fault limit; and a chain ends on an
\* Okay status, on the fault limit, on a repeated Conflict, on a missing
\* row, or on the subset-of-users short circuit.
C18_RetryChainTerminates ==
    /\ \A id \in InstanceIds : <>[](PendingFor(id) = {})
    /\ [](\A j \in jobs :
             (j.delayed /\ Exists(store, j.args)) =>
                FaultsOf(j.args) < CONNECTION_FAULT_LIMIT)
    /\ [][(last'.op = "perform" /\ \A j \in jobs' : j.args # last'.id) =>
             \/ ~last'.found
             \/ last'.skipped
             \/ store'[last'.id].connection_status = Okay
             \/ store'[last'.id].connection_faults >= CONNECTION_FAULT_LIMIT
             \/ /\ last'.prior_status = Conflict
                /\ store'[last'.id].connection_status = Conflict]_vars

C18_Witness ==
    /\ last.op = "perform" /\ last.probed /\ last.id = "d1"
    /\ FaultsOf("d1") = CONNECTION_FAULT_LIMIT
    /\ StatusOf("d1") = ConnectionFailure
    /\ PendingFor("d1") = {}

====
